---- MODULE Spec2Model ----
(***************************************************************************)
(* server/server.js: the socket.io connection handlers (join, getMessages, *)
(* sendMessage), the db helper object they call, the socket.io rooms they  *)
(* dispatch to, the HTTP routes that write the users and friends tables    *)
(* (/register, /friends, /friends/respond, /user/profile), and the tables  *)
(* messages, users and friends.                                            *)
(*                                                                         *)
(* Every handler that calls the database is split where the code is split  *)
(* by the asynchronous round trip: the handler body (up to pool.query),    *)
(* the execution of the statement by the database, and the callback.       *)
(***************************************************************************)
EXTENDS Integers, Sequences, FiniteSets, TLC

(* ----------------------------- bounds --------------------------------- *)

\* sendMessage events a run of Spec receives
MaxSends == 1
\* sendMessage and getMessages events a run of SpecHistory receives
MaxHistEvents == 3

\* sendMessage and getMessages events a run of SpecLoad receives
MaxLoadEvents == 3

\* socket ids the transport hands out, in this order
ConnOrder == <<"c1", "c2", "c3">>
Conns == {ConnOrder[i] : i \in 1..Len(ConnOrder)}
\* usernames clients use in join, sendMessage and getMessages
Users == {"alice", "bob", "carol"}

(* ------------------------- JavaScript values -------------------------- *)

\* a missing property / a missing argument
Undefined == "<undefined>"
\* SQL NULL / JavaScript null
Null == "<null>"
\* a sendMessage or getMessages event emitted without a payload object
NoData == [nodata |-> TRUE]
\* result.lastID when the answer carries no row (ids of the sequence start at 1)
NoId == 0

\* !v for the values a payload field takes
Falsy(v) == v \in {Undefined, Null, ""}
\* v || d
OrElse(v, d) == IF Falsy(v) THEN d ELSE v
\* a destructuring default: { v = d }
Default(v, d) == IF v = Undefined THEN d ELSE v
\* a query parameter as the driver sends it: undefined goes as NULL
ToSql(v) == IF v = Undefined THEN Null ELSE v

(* ------------------------------ state --------------------------------- *)

VARIABLES
  running,    \* the node process has not died of an uncaught exception
  live,       \* sockets of the namespace (connected)
  closed,     \* sockets that disconnected (ids are never reused)
  rooms,      \* the adapter's rooms: room name -> set of sockets
  username,   \* socket.username
  messages,   \* the messages table: a set of rows
  seq,        \* the last value of the SERIAL sequence of messages.id
  origin,     \* history variable: per stored row, in the order the rows were
              \* stored, the send it comes from: <<[req, id, l], ...>>
  inserts,    \* sendMessage calls between pool.query and their callback
  queries,    \* getMessages calls between pool.query and their callback
  inbox,      \* per socket, the events the server emitted to it, in order
  nSends,     \* sendMessage events received so far
  nQueries,   \* getMessages events received so far
  errlog,     \* console.error: the sends whose insert error was logged
  clock,      \* the wall clock, in minutes of the day (only the runs of
              \* SpecClock last longer than a minute)
  users,      \* the users table: a set of rows
  friends,    \* the friends table: a set of rows
  stmts,      \* statements of the HTTP routes between pool.query and the end
              \* of their callback
  nCalls,     \* HTTP requests received so far
  renamed,    \* history variable: the renames whose UPDATE users succeeded
              \* and whose callback ran
  asked       \* history variable: the friend requests that were stored

sockVars == <<live, closed, rooms, username>>
dbVars == <<messages, seq, origin>>
acctVars == <<users, friends, stmts, nCalls, renamed, asked>>
vars == <<running, live, closed, rooms, username, messages, seq, origin,
          inserts, queries, inbox, nSends, nQueries, errlog, clock,
          users, friends, stmts, nCalls, renamed, asked>>

\* toLocaleTimeString([], {hour: '2-digit', minute: '2-digit'}): hour and
\* minute of the day, nothing else of the date
Timestamp(t) == <<(t \div 60) % 24, t % 60>>

Init ==
  /\ running = TRUE
  /\ live = {}
  /\ closed = {}
  /\ rooms = [u \in Users |-> {}]
  /\ username = [c \in Conns |-> Undefined]
  /\ messages = {}
  /\ seq = 0
  /\ origin = <<>>
  /\ inserts = {}
  /\ queries = {}
  /\ inbox = [c \in Conns |-> <<>>]
  /\ nSends = 0
  /\ nQueries = 0
  /\ errlog = {}
  /\ clock = 0
  /\ users = {}
  /\ friends = {}
  /\ stmts = {}
  /\ nCalls = 0
  /\ renamed = {}
  /\ asked = {}

(* --------------------------- connections ------------------------------ *)

\* the next socket id the transport hands out
FreshConn(c) ==
  \E i \in 1..Len(ConnOrder) :
    /\ c = ConnOrder[i]
    /\ \A j \in 1..Len(ConnOrder) :
         (ConnOrder[j] \in live \cup closed) <=> (j < i)

\* io.on('connection', (socket) => { ... })
Connect(c) ==
  /\ running
  /\ FreshConn(c)
  /\ live' = live \cup {c}
  /\ UNCHANGED <<running, closed, rooms, username, dbVars, inserts, queries,
                 inbox, nSends, nQueries, errlog, clock, acctVars>>

\* socket.join(username): the socket is added to the room; it leaves none
JoinRoom(c, u) == [rooms EXCEPT ![u] = @ \cup {c}]

\* socket.on('join', (username) => { socket.join(username); socket.username = username })
Join(c, u) ==
  /\ running
  /\ c \in live
  /\ rooms' = JoinRoom(c, u)
  /\ username' = [username EXCEPT ![c] = u]
  /\ UNCHANGED <<running, live, closed, dbVars, inserts, queries, inbox,
                 nSends, nQueries, errlog, clock, acctVars>>

\* the transport's teardown of a socket: it leaves every room it is in
LeaveAll(c) == [r \in Users |-> rooms[r] \ {c}]

\* a client disconnects (the code registers no 'disconnect' handler; the
\* socket leaves the namespace and its rooms, and the socket object with
\* its username field is dropped)
Disconnect(c) ==
  /\ running
  /\ c \in live
  /\ live' = live \ {c}
  /\ closed' = closed \cup {c}
  /\ rooms' = LeaveAll(c)
  /\ username' = [username EXCEPT ![c] = Undefined]
  /\ UNCHANGED <<running, dbVars, inserts, queries, inbox, nSends, nQueries,
                 errlog, clock, acctVars>>

\* an exception thrown by a handler is caught nowhere: the process dies
Crash ==
  /\ running' = FALSE
  /\ UNCHANGED <<sockVars, dbVars, inserts, queries, inbox, errlog, clock, acctVars>>

(* ----------------------------- sendMessage ---------------------------- *)

\* a payload object as a client sends it
Data(text, sender, receiver, type, file_url) ==
  [text |-> text, sender_username |-> sender, receiver_username |-> receiver,
   type |-> type, file_url |-> file_url]

\* const { text, sender_username, receiver_username, type = 'text', file_url = null } = data
Locals(data) ==
  [text |-> data.text,
   sender_username |-> data.sender_username,
   receiver_username |-> data.receiver_username,
   type |-> Default(data.type, "text"),
   file_url |-> Default(data.file_url, Null)]

\* the row INSERT INTO messages (...) VALUES ($1..$6) RETURNING id stores,
\* from [text || '', sender_username, receiver_username || null, timestamp, type, file_url]
InsertRow(id, l, ts) ==
  [id |-> id,
   text |-> ToSql(OrElse(l.text, "")),
   sender_username |-> ToSql(l.sender_username),
   receiver_username |-> ToSql(OrElse(l.receiver_username, Null)),
   timestamp |-> ts,
   type |-> ToSql(l.type),
   file_url |-> ToSql(l.file_url)]

\* const newMessage = { id: result.lastID, text, sender_username, ... }
NewMessage(lastID, l, ts) ==
  [id |-> lastID,
   text |-> l.text,
   sender_username |-> l.sender_username,
   receiver_username |-> l.receiver_username,
   timestamp |-> ts,
   type |-> l.type,
   file_url |-> l.file_url]

\* socket.on('sendMessage', (data) => { ...; db.run(INSERT ..., callback) }):
\* the handler body up to pool.query. Destructuring a payload that is not
\* an object throws.
SendMessage(c, data) ==
  /\ running
  /\ c \in live
  /\ nSends' = nSends + 1
  /\ IF data = NoData
       THEN /\ Crash
            /\ UNCHANGED nQueries
       ELSE /\ inserts' = inserts \cup
                 {[req |-> nSends + 1, l |-> Locals(data),
                   timestamp |-> Timestamp(clock), stage |-> "sent",
                   lastID |-> NoId]}
            /\ UNCHANGED <<running, sockVars, dbVars, queries, inbox,
                           nQueries, errlog, clock, acctVars>>

\* db.run's answer to its callback: callback(err, { lastID: res?.rows?.[0]?.id })
RunResult_ErrDropped(q, err, id) == [q EXCEPT !.stage = "ok", !.lastID = id]

RunResult(q, err, id) ==
  [q EXCEPT !.stage = IF err THEN "err" ELSE "ok",
            !.lastID = IF err THEN NoId ELSE id]

\* the database executes the INSERT: the row is stored under the next id
InsertOk(q) ==
  /\ running
  /\ q \in inserts
  /\ q.stage = "sent"
  /\ seq' = seq + 1
  /\ messages' = messages \cup {InsertRow(seq + 1, q.l, q.timestamp)}
  /\ origin' = Append(origin, [req |-> q.req, id |-> seq + 1, l |-> q.l])
  /\ inserts' = (inserts \ {q}) \cup {RunResult(q, FALSE, seq + 1)}
  /\ UNCHANGED <<running, sockVars, queries, inbox, nSends, nQueries,
                 errlog, clock, acctVars>>

\* the INSERT fails (PersistenceError): nothing is stored
InsertFail_Stores(q) ==
  /\ running
  /\ q \in inserts
  /\ q.stage = "sent"
  /\ seq' = seq + 1
  /\ messages' = messages \cup {InsertRow(seq + 1, q.l, q.timestamp)}
  /\ origin' = origin
  /\ inserts' = (inserts \ {q}) \cup {RunResult(q, TRUE, NoId)}
  /\ UNCHANGED <<running, sockVars, queries, inbox, nSends, nQueries,
                 errlog, clock, acctVars>>

InsertFail(q) ==
  /\ running
  /\ q \in inserts
  /\ q.stage = "sent"
  /\ inserts' = (inserts \ {q}) \cup {RunResult(q, TRUE, NoId)}
  /\ UNCHANGED <<running, sockVars, dbVars, queries, inbox, nSends,
                 nQueries, errlog, clock, acctVars>>

\* the sockets of a room (a room exists while a socket is in it)
RoomMembers(r) == IF r \in DOMAIN rooms THEN rooms[r] ELSE {}

\* io.emit(...) when !receiver_username, else
\* io.to(receiver_username).to(sender_username).emit(...)
Targets_JoinedOnly(l) ==
  IF Falsy(l.receiver_username)
    THEN UNION {rooms[r] : r \in DOMAIN rooms}
    ELSE RoomMembers(l.receiver_username) \cup RoomMembers(l.sender_username)

Targets_Stale(l) ==
  IF Falsy(l.receiver_username)
    THEN live \cup closed
    ELSE RoomMembers(l.receiver_username) \cup RoomMembers(l.sender_username)

Targets(l) ==
  IF Falsy(l.receiver_username)
    THEN live
    ELSE RoomMembers(l.receiver_username) \cup RoomMembers(l.sender_username)

\* how many of the rooms named by a record a socket is in
RoomsHit(c, m) ==
  Cardinality({r \in {m.receiver_username, m.sender_username} : c \in RoomMembers(r)})

\* emit to a set of sockets: each gets the event once
Emit_PerRoom(targets, ev) ==
  [c \in Conns |->
     IF c \in targets
       THEN IF RoomsHit(c, ev.msg) = 2
              THEN inbox[c] \o <<ev, ev>>
              ELSE Append(inbox[c], ev)
       ELSE inbox[c]]

Emit(targets, ev) ==
  [c \in Conns |-> IF c \in targets THEN Append(inbox[c], ev) ELSE inbox[c]]

\* if (err) return console.error(err)
InsertFailed_Ignored(q) == FALSE

InsertFailed(q) == q.stage = "err"

\* function(err, result) { ... }: the callback of the INSERT
SendCallback(q) ==
  /\ running
  /\ q \in inserts
  /\ q.stage \in {"ok", "err"}
  /\ inserts' = inserts \ {q}
  /\ IF InsertFailed(q)
       THEN /\ errlog' = errlog \cup {q.req}
            /\ UNCHANGED inbox
       ELSE /\ inbox' = Emit(Targets(q.l),
                             [event |-> "receiveMessage", req |-> q.req,
                              msg |-> NewMessage(q.lastID, q.l, q.timestamp)])
            /\ UNCHANGED errlog
  /\ UNCHANGED <<running, sockVars, dbVars, queries, nSends, nQueries,
                 clock, acctVars>>

(* ----------------------------- getMessages ---------------------------- *)

\* a getMessages payload as a client sends it
Request(type, me, mate) == [type |-> type, me |-> me, mate |-> mate]

\* column = $n: never true of NULL, on either side
SqlEq(col, param) == col # Null /\ param # Null /\ col = param

\* WHERE receiver_username IS NULL
GlobalMatch_All(m) == TRUE

GlobalMatch_EmptyReceiver(m) == m.receiver_username = ""

GlobalMatch(m) == m.receiver_username = Null

\* WHERE (sender_username = $1 AND receiver_username = $2)
\*    OR (sender_username = $3 AND receiver_username = $4), params [me, mate, mate, me]
DirectMatch_OneWay(m, me, mate) ==
  SqlEq(m.sender_username, ToSql(me)) /\ SqlEq(m.receiver_username, ToSql(mate))

DirectMatch(m, me, mate) ==
  \/ SqlEq(m.sender_username, ToSql(me)) /\ SqlEq(m.receiver_username, ToSql(mate))
  \/ SqlEq(m.sender_username, ToSql(mate)) /\ SqlEq(m.receiver_username, ToSql(me))

\* the row of a non-empty set of rows with the least id
MinRow(S) == CHOOSE m \in S : \A n \in S : m.id <= n.id

\* ORDER BY id ASC
RECURSIVE OrderById(_)
OrderById(S) ==
  IF S = {} THEN <<>> ELSE <<MinRow(S)>> \o OrderById(S \ {MinRow(S)})

\* the rows the SELECT of a getMessages call returns from the table as it is
Select(q) ==
  IF q.type = "global"
    THEN OrderById({m \in messages : GlobalMatch(m)})
    ELSE OrderById({m \in messages : DirectMatch(m, q.me, q.mate)})

\* socket.on('getMessages', ({ type, mate, me }) => { ...; db.all(sql, params, callback) }):
\* the handler body up to pool.query. Destructuring a payload that is not
\* an object throws.
GetMessages(c, data) ==
  /\ running
  /\ c \in live
  /\ nQueries' = nQueries + 1
  /\ IF data = NoData
       THEN /\ Crash
            /\ UNCHANGED nSends
       ELSE /\ queries' = queries \cup
                 {[qid |-> nQueries + 1, conn |-> c, type |-> data.type,
                   me |-> data.me, mate |-> data.mate, stage |-> "sent",
                   rows |-> <<>>, stored |-> 0, logged |-> {}]}
            /\ UNCHANGED <<running, sockVars, dbVars, inserts, inbox, nSends,
                           errlog, clock, acctVars>>

\* db.all's answer to its callback: callback(err, res?.rows || []).
\* stored and logged are history fields: how many rows had been stored, and
\* which failed sends had been logged, when the statement ran.
AllResult(q, err, rows) ==
  [q EXCEPT !.stage = IF err THEN "err" ELSE "ok",
            !.rows = IF err THEN <<>> ELSE rows,
            !.stored = Len(origin),
            !.logged = errlog]

\* the database executes the SELECT on the table as it is now
QueryOk(q) ==
  /\ running
  /\ q \in queries
  /\ q.stage = "sent"
  /\ queries' = (queries \ {q}) \cup {AllResult(q, FALSE, Select(q))}
  /\ UNCHANGED <<running, sockVars, dbVars, inserts, inbox, nSends, nQueries,
                 errlog, clock, acctVars>>

\* the SELECT fails (PersistenceError)
QueryFail(q) ==
  /\ running
  /\ q \in queries
  /\ q.stage = "sent"
  /\ queries' = (queries \ {q}) \cup {AllResult(q, TRUE, <<>>)}
  /\ UNCHANGED <<running, sockVars, dbVars, inserts, inbox, nSends, nQueries,
                 errlog, clock, acctVars>>

\* socket.emit(...): to this socket alone, while it is connected
EmitTo_Broadcast(c, ev) ==
  [d \in Conns |-> IF d \in live THEN Append(inbox[d], ev) ELSE inbox[d]]

EmitTo(c, ev) ==
  [d \in Conns |-> IF d = c /\ c \in live THEN Append(inbox[d], ev) ELSE inbox[d]]

\* (err, rows) => { if (!err) socket.emit('history', rows) }
QueryCallback(q) ==
  /\ running
  /\ q \in queries
  /\ q.stage \in {"ok", "err"}
  /\ queries' = queries \ {q}
  /\ inbox' = IF q.stage = "err"
                THEN inbox
                ELSE EmitTo(q.conn, [event |-> "history", q |-> q, rows |-> q.rows])
  /\ UNCHANGED <<running, sockVars, dbVars, inserts, nSends, nQueries, errlog,
                 clock, acctVars>>

(* ------------------------------ the clock ----------------------------- *)

\* the minutes of a day: the hour:minute of new Date() starts over at midnight
MinutesPerDay == 1440

\* a minute passes
Tick ==
  /\ running
  /\ clock' = (clock + 1) % MinutesPerDay
  /\ UNCHANGED <<running, sockVars, dbVars, inserts, queries, inbox, nSends,
                 nQueries, errlog, acctVars>>

(* ----------------------------- HTTP routes ---------------------------- *)

\* a statement a route hands to db.run: its parameters and how far it is
\* ("sent": pool.query was called; "ok", "err": the database answered and
\* the callback is still to run)
Stmt(id, kind, user, other, extra) ==
  [id |-> id, kind |-> kind, user |-> user, other |-> other, extra |-> extra,
   stage |-> "sent"]

\* the database has answered the statement
Answer(s, err) == [s EXCEPT !.stage = IF err THEN "err" ELSE "ok"]

\* bcrypt.hash(password, 10)
Hash(password) == <<"bcrypt", password>>

\* avatar_url TEXT DEFAULT '...'
DefaultAvatar == "149071.png"

\* app.post('/register'): the handler up to pool.query
PostRegister(name, password) ==
  /\ running
  /\ nCalls' = nCalls + 1
  /\ stmts' = IF Falsy(name) \/ Falsy(password)
                THEN stmts
                ELSE stmts \cup {Stmt(nCalls + 1, "register", name, Hash(password), Null)}
  /\ UNCHANGED <<running, sockVars, dbVars, inserts, queries, inbox, nSends,
                 nQueries, errlog, clock, users, friends, renamed, asked>>

\* INSERT INTO users (username, password) VALUES ($1, $2): username is UNIQUE
ExecRegister(s) ==
  /\ running
  /\ s \in stmts
  /\ s.kind = "register"
  /\ s.stage = "sent"
  /\ IF \E r \in users : r.username = s.user
       THEN /\ stmts' = (stmts \ {s}) \cup {Answer(s, TRUE)}
            /\ UNCHANGED users
       ELSE /\ stmts' = (stmts \ {s}) \cup {Answer(s, FALSE)}
            /\ users' = users \cup {[username |-> s.user, password |-> s.other,
                                     avatar_url |-> DefaultAvatar]}
  /\ UNCHANGED <<running, sockVars, dbVars, inserts, queries, inbox, nSends,
                 nQueries, errlog, clock, friends, nCalls, renamed, asked>>

\* a callback that only answers the HTTP request: function(err) { res.json(...) }
Respond(s) ==
  /\ running
  /\ s \in stmts
  /\ s.stage \in {"ok", "err"}
  /\ stmts' = stmts \ {s}
  /\ UNCHANGED <<running, sockVars, dbVars, inserts, queries, inbox, nSends,
                 nQueries, errlog, clock, users, friends, nCalls, renamed, asked>>

\* the callback of /register
RegisterCallback(s) == s.kind = "register" /\ Respond(s)

\* a row of the friends table
Edge(user, friend, status) ==
  [user_username |-> user, friend_username |-> friend, status |-> status]

\* a row with this (user_username, friend_username) is stored
HasEdge(user, friend) ==
  \E f \in friends : f.user_username = user /\ f.friend_username = friend

\* app.post('/friends'): the handler up to pool.query
PostFriends(user, friend) ==
  /\ running
  /\ nCalls' = nCalls + 1
  /\ stmts' = IF user = friend
                THEN stmts
                ELSE stmts \cup {Stmt(nCalls + 1, "request", user, friend, Null)}
  /\ UNCHANGED <<running, sockVars, dbVars, inserts, queries, inbox, nSends,
                 nQueries, errlog, clock, users, friends, renamed, asked>>

\* INSERT INTO friends (...) VALUES ($1, $2, 'pending'), under
\* UNIQUE(user_username, friend_username)
ExecRequest(s) ==
  /\ running
  /\ s \in stmts
  /\ s.kind = "request"
  /\ s.stage = "sent"
  /\ IF HasEdge(s.user, s.other)
       THEN /\ stmts' = (stmts \ {s}) \cup {Answer(s, TRUE)}
            /\ UNCHANGED <<friends, asked>>
       ELSE /\ stmts' = (stmts \ {s}) \cup {Answer(s, FALSE)}
            /\ friends' = friends \cup {Edge(s.user, s.other, "pending")}
            /\ asked' = asked \cup {<<s.user, s.other>>}
  /\ UNCHANGED <<running, sockVars, dbVars, inserts, queries, inbox, nSends,
                 nQueries, errlog, clock, users, nCalls, renamed>>

\* the callback of POST /friends
RequestCallback(s) == s.kind = "request" /\ Respond(s)

\* app.put('/friends/respond'): the handler up to pool.query
PutFriendsRespond(user, friend, action) ==
  /\ running
  /\ nCalls' = nCalls + 1
  /\ stmts' = stmts \cup
       {Stmt(nCalls + 1, IF action = "accept" THEN "accept" ELSE "reject",
             user, friend, Null)}
  /\ UNCHANGED <<running, sockVars, dbVars, inserts, queries, inbox, nSends,
                 nQueries, errlog, clock, users, friends, renamed, asked>>

\* UPDATE friends SET status = 'accepted'
\* WHERE user_username = $1 AND friend_username = $2, params [friend, user]
ExecAccept(s) ==
  /\ running
  /\ s \in stmts
  /\ s.kind = "accept"
  /\ s.stage = "sent"
  /\ friends' = {IF f.user_username = s.other /\ f.friend_username = s.user
                   THEN [f EXCEPT !.status = "accepted"]
                   ELSE f : f \in friends}
  /\ stmts' = (stmts \ {s}) \cup {Answer(s, FALSE)}
  /\ UNCHANGED <<running, sockVars, dbVars, inserts, queries, inbox, nSends,
                 nQueries, errlog, clock, users, nCalls, renamed, asked>>

\* the callback of the UPDATE: it hands the INSERT of the reverse edge to
\* db.run, without a callback, and answers
AcceptCallback(s) ==
  /\ running
  /\ s \in stmts
  /\ s.kind = "accept"
  /\ s.stage \in {"ok", "err"}
  /\ stmts' = IF s.stage = "err"
                THEN stmts \ {s}
                ELSE (stmts \ {s}) \cup {Stmt(s.id, "reverse", s.user, s.other, Null)}
  /\ UNCHANGED <<running, sockVars, dbVars, inserts, queries, inbox, nSends,
                 nQueries, errlog, clock, users, friends, nCalls, renamed, asked>>

\* INSERT INTO friends (...) VALUES ($1, $2, 'accepted') ON CONFLICT DO
\* NOTHING, params [user, friend]; nothing waits for its answer
ExecReverse(s) ==
  /\ running
  /\ s \in stmts
  /\ s.kind = "reverse"
  /\ friends' = IF HasEdge(s.user, s.other)
                  THEN friends
                  ELSE friends \cup {Edge(s.user, s.other, "accepted")}
  /\ stmts' = stmts \ {s}
  /\ UNCHANGED <<running, sockVars, dbVars, inserts, queries, inbox, nSends,
                 nQueries, errlog, clock, users, nCalls, renamed, asked>>

\* DELETE FROM friends WHERE user_username = $1 AND friend_username = $2,
\* params [friend, user]
ExecReject(s) ==
  /\ running
  /\ s \in stmts
  /\ s.kind = "reject"
  /\ s.stage = "sent"
  /\ friends' = {f \in friends :
                   ~(f.user_username = s.other /\ f.friend_username = s.user)}
  /\ stmts' = (stmts \ {s}) \cup {Answer(s, FALSE)}
  /\ UNCHANGED <<running, sockVars, dbVars, inserts, queries, inbox, nSends,
                 nQueries, errlog, clock, users, nCalls, renamed, asked>>

\* the callback of the DELETE
RejectCallback(s) == s.kind = "reject" /\ Respond(s)

\* app.put('/user/profile'): the handler up to pool.query;
\* if (!newUsername) newUsername = currentUsername
PutUserProfile(currentUsername, newUsername, newAvatar) ==
  /\ running
  /\ nCalls' = nCalls + 1
  /\ stmts' = stmts \cup
       {Stmt(nCalls + 1, "profile", currentUsername,
             OrElse(newUsername, currentUsername), newAvatar)}
  /\ UNCHANGED <<running, sockVars, dbVars, inserts, queries, inbox, nSends,
                 nQueries, errlog, clock, users, friends, renamed, asked>>

\* UPDATE users SET username = $1, avatar_url = $2 WHERE username = $3,
\* params [newUsername, newAvatar, currentUsername]: it fails when a row it
\* changes would take the username of another row (username is UNIQUE)
ExecProfile(s) ==
  /\ running
  /\ s \in stmts
  /\ s.kind = "profile"
  /\ s.stage = "sent"
  /\ IF /\ \E r \in users : SqlEq(r.username, ToSql(s.user))
        /\ \E r \in users : r.username = s.other /\ r.username # s.user
       THEN /\ stmts' = (stmts \ {s}) \cup {Answer(s, TRUE)}
            /\ UNCHANGED users
       ELSE /\ stmts' = (stmts \ {s}) \cup {Answer(s, FALSE)}
            /\ users' = {IF SqlEq(r.username, ToSql(s.user))
                           THEN [r EXCEPT !.username = s.other,
                                          !.avatar_url = ToSql(s.extra)]
                           ELSE r : r \in users}
  /\ UNCHANGED <<running, sockVars, dbVars, inserts, queries, inbox, nSends,
                 nQueries, errlog, clock, friends, nCalls, renamed, asked>>

\* the columns the rename is copied to, one UPDATE each
CascadeColumns ==
  {"messages.sender_username", "messages.receiver_username",
   "friends.user_username", "friends.friend_username"}

\* the callback of the UPDATE of users: when the username changed it hands
\* the four UPDATEs to db.run, without callbacks, and answers
ProfileCallback(s) ==
  /\ running
  /\ s \in stmts
  /\ s.kind = "profile"
  /\ s.stage \in {"ok", "err"}
  /\ IF s.stage = "ok" /\ s.other # s.user
       THEN /\ stmts' = (stmts \ {s}) \cup
                 {Stmt(s.id, "cascade", s.user, s.other, col) : col \in CascadeColumns}
            /\ renamed' = renamed \cup {<<s.user, s.other>>}
       ELSE /\ stmts' = stmts \ {s}
            /\ UNCHANGED renamed
  /\ UNCHANGED <<running, sockVars, dbVars, inserts, queries, inbox, nSends,
                 nQueries, errlog, clock, users, friends, nCalls, asked>>

\* new where the column holds old: SET col = $1 WHERE col = $2
Renamed(value, old, new) == IF SqlEq(value, ToSql(old)) THEN new ELSE value

\* the messages table after UPDATE messages SET <col> = $1 WHERE <col> = $2
CascadeMessages(col, old, new) ==
  {IF col = "messages.sender_username"
     THEN [m EXCEPT !.sender_username = Renamed(@, old, new)]
     ELSE [m EXCEPT !.receiver_username = Renamed(@, old, new)] : m \in messages}

\* the friends table after UPDATE friends SET <col> = $1 WHERE <col> = $2;
\* the statement fails, and changes nothing, when two rows would hold the
\* same (user_username, friend_username)
CascadeFriends(col, old, new) ==
  LET after == {IF col = "friends.user_username"
                  THEN [f EXCEPT !.user_username = Renamed(@, old, new)]
                  ELSE [f EXCEPT !.friend_username = Renamed(@, old, new)] : f \in friends}
      keys(S) == {<<f.user_username, f.friend_username>> : f \in S}
  IN  IF Cardinality(keys(after)) < Cardinality(keys(friends))
        THEN friends
        ELSE after

\* the database executes one of the four UPDATEs; nothing waits for its answer
ExecCascade(s) ==
  /\ running
  /\ s \in stmts
  /\ s.kind = "cascade"
  /\ IF s.extra \in {"messages.sender_username", "messages.receiver_username"}
       THEN /\ messages' = CascadeMessages(s.extra, s.user, s.other)
            /\ UNCHANGED friends
       ELSE /\ friends' = CascadeFriends(s.extra, s.user, s.other)
            /\ UNCHANGED messages
  /\ stmts' = stmts \ {s}
  /\ UNCHANGED <<running, sockVars, seq, origin, inserts, queries, inbox,
                 nSends, nQueries, errlog, clock, users, nCalls, renamed, asked>>

(* --------------------------- specifications --------------------------- *)

\* Spec: connections, rooms and live delivery.
\* the payloads clients send in the runs of Spec
SendInputs ==
  { Data("hi", "alice", "bob", Undefined, Undefined),
    Data("hi", "alice", "carol", Undefined, Undefined),
    Data("hi", "bob", "bob", Undefined, Undefined),
    Data("hi", "carol", Undefined, Undefined, Undefined),
    Data("", "alice", "", "file", "/uploads/1.png"),
    Data(Undefined, Undefined, Undefined, Undefined, Undefined),
    NoData }

\* the usernames clients join as in the runs of Spec
JoinNames == {"alice", "bob"}

Next ==
  \/ \E c \in Conns : Connect(c)
  \/ \E c \in Conns, u \in JoinNames : Join(c, u)
  \/ \E c \in Conns : Disconnect(c)
  \/ /\ nSends < MaxSends
     /\ \E c \in Conns, data \in SendInputs : SendMessage(c, data)
  \/ \E q \in inserts : InsertOk(q)
  \/ \E q \in inserts : InsertFail(q)
  \/ \E q \in inserts : SendCallback(q)

Spec == Init /\ [][Next]_vars

\* SpecHistory: the sends and the history loads of one connection, which
\* joins no room (it receives the broadcasts and its own history events).
HistConns == {"c1"}

\* the payloads the client sends in the runs of SpecHistory
HistSendInputs ==
  { Data("hi", "alice", "bob", Undefined, Undefined),
    Data("yo", "bob", "alice", Undefined, Undefined),
    Data("hi", "alice", "carol", Undefined, Undefined),
    Data("all", "alice", "", Undefined, Undefined) }

\* the history requests the client sends in the runs of SpecHistory
HistRequests ==
  { Request("global", Undefined, Undefined),
    Request("direct", "alice", "bob"),
    Request("direct", "alice", Undefined),
    Request(Undefined, "carol", "alice"),
    NoData }

NextHistory ==
  \/ \E c \in HistConns : Connect(c)
  \/ /\ nSends + nQueries < MaxHistEvents
     /\ \E c \in HistConns, data \in HistSendInputs : SendMessage(c, data)
  \/ \E q \in inserts : InsertOk(q)
  \/ \E q \in inserts : InsertFail(q)
  \/ \E q \in inserts : SendCallback(q)
  \/ /\ nSends + nQueries < MaxHistEvents
     /\ \E c \in HistConns, data \in HistRequests : GetMessages(c, data)
  \/ \E q \in queries : QueryOk(q)
  \/ \E q \in queries : QueryFail(q)
  \/ \E q \in queries : QueryCallback(q)

SpecHistory == Init /\ [][NextHistory]_vars

\* SpecLoad: history loads while two connections come and go.
LoadConns == {"c1", "c2"}

\* the payloads clients send in the runs of SpecLoad
LoadSendInputs == { Data("all", "alice", Undefined, Undefined, Undefined) }

\* the history requests clients send in the runs of SpecLoad
LoadRequests ==
  { Request("global", Undefined, Undefined),
    Request("direct", "alice", "bob") }

NextLoad ==
  \/ \E c \in LoadConns : Connect(c)
  \/ \E c \in LoadConns : Disconnect(c)
  \/ /\ nSends + nQueries < MaxLoadEvents
     /\ \E c \in LoadConns, data \in LoadSendInputs : SendMessage(c, data)
  \/ \E q \in inserts : InsertOk(q)
  \/ \E q \in inserts : SendCallback(q)
  \/ /\ nSends + nQueries < MaxLoadEvents
     /\ \E c \in LoadConns, data \in LoadRequests : GetMessages(c, data)
  \/ \E q \in queries : QueryOk(q)
  \/ \E q \in queries : QueryFail(q)
  \/ \E q \in queries : QueryCallback(q)

SpecLoad == Init /\ [][NextLoad]_vars

\* SpecChat: two connections that join, send and load history while the
\* inserts and the queries of the others are in flight. A client asks for
\* the direct history of (me, mate) on a connection it has joined as me.
\* sendMessage and getMessages events a run of SpecChat receives
MaxChatEvents == 3

ChatConns == {"c1", "c2"}

\* the usernames clients join as in the runs of SpecChat
ChatJoinNames == {"alice"}

\* the payloads clients send in the runs of SpecChat
ChatSendInputs ==
  { Data("hi", "alice", "bob", Undefined, Undefined),
    Data("all", "alice", Undefined, Undefined, Undefined) }

\* the history requests clients send in the runs of SpecChat
ChatRequests ==
  { Request("global", Undefined, Undefined),
    Request("direct", "alice", "bob") }

NextChat ==
  \/ \E c \in ChatConns : Connect(c)
  \/ \E c \in ChatConns, u \in ChatJoinNames : Join(c, u)
  \/ /\ nSends + nQueries < MaxChatEvents
     /\ \E c \in ChatConns, data \in ChatSendInputs : SendMessage(c, data)
  \/ \E q \in inserts : InsertOk(q)
  \/ \E q \in inserts : InsertFail(q)
  \/ \E q \in inserts : SendCallback(q)
  \/ /\ nSends + nQueries < MaxChatEvents
     /\ \E c \in ChatConns, data \in ChatRequests :
          /\ (data.type = "direct") => (c \in RoomMembers(data.me))
          /\ GetMessages(c, data)
  \/ \E q \in queries : QueryOk(q)
  \/ \E q \in queries : QueryCallback(q)

SpecChat == Init /\ [][NextChat]_vars

\* SpecPayload: one connection sends payloads of every shape and loads the
\* history.
\* sendMessage and getMessages events a run of SpecPayload receives
MaxPayloadEvents == 2

PayloadConns == {"c1"}

\* the payloads the client sends in the runs of SpecPayload: a text, a file
\* with its url, a file without text and without url, an empty text to an
\* empty receiver with a null url, a null receiver, and an empty object
PayloadInputs ==
  { Data("hi", "alice", "bob", Undefined, Undefined),
    Data("pic", "alice", "bob", "file", "/uploads/1.png"),
    Data(Undefined, "alice", "bob", "file", Undefined),
    Data("", "alice", "", "file", Null),
    Data("hi", "alice", Null, "text", Undefined),
    Data(Undefined, Undefined, Undefined, Undefined, Undefined) }

\* the history requests the client sends in the runs of SpecPayload
PayloadRequests ==
  { Request("global", Undefined, Undefined),
    Request("direct", "alice", "bob") }

NextPayload ==
  \/ \E c \in PayloadConns : Connect(c)
  \/ \E c \in PayloadConns : Join(c, "alice")
  \/ /\ nSends + nQueries < MaxPayloadEvents
     /\ \E c \in PayloadConns, data \in PayloadInputs : SendMessage(c, data)
  \/ \E q \in inserts : InsertOk(q)
  \/ \E q \in inserts : SendCallback(q)
  \/ /\ nSends + nQueries < MaxPayloadEvents
     /\ \E c \in PayloadConns, data \in PayloadRequests : GetMessages(c, data)
  \/ \E q \in queries : QueryOk(q)
  \/ \E q \in queries : QueryCallback(q)

SpecPayload == Init /\ [][NextPayload]_vars

\* SpecClock: one connection sends and loads history while the minutes
\* pass, the server having started at 23:59.
\* sendMessage and getMessages events a run of SpecClock receives
MaxClockEvents == 3
\* minutes that pass in a run of SpecClock
MaxTicks == 2

ClockConns == {"c1"}

\* the wall clock when the server starts, in the runs of SpecClock: 23:59
ClockStart == MinutesPerDay - 1

\* the payloads the client sends in the runs of SpecClock
ClockSendInputs ==
  { Data("hi", "alice", "bob", Undefined, Undefined),
    Data("all", "alice", Undefined, Undefined, Undefined) }

\* the history requests the client sends in the runs of SpecClock
ClockRequests ==
  { Request("global", Undefined, Undefined),
    Request("direct", "alice", "bob") }

InitClock ==
  /\ running = TRUE
  /\ live = {}
  /\ closed = {}
  /\ rooms = [u \in Users |-> {}]
  /\ username = [c \in Conns |-> Undefined]
  /\ messages = {}
  /\ seq = 0
  /\ origin = <<>>
  /\ inserts = {}
  /\ queries = {}
  /\ inbox = [c \in Conns |-> <<>>]
  /\ nSends = 0
  /\ nQueries = 0
  /\ errlog = {}
  /\ clock = ClockStart
  /\ users = {}
  /\ friends = {}
  /\ stmts = {}
  /\ nCalls = 0
  /\ renamed = {}
  /\ asked = {}

NextClock ==
  \/ \E c \in ClockConns : Connect(c)
  \/ /\ (clock + MinutesPerDay - ClockStart) % MinutesPerDay < MaxTicks
     /\ Tick
  \/ /\ nSends + nQueries < MaxClockEvents
     /\ \E c \in ClockConns, data \in ClockSendInputs : SendMessage(c, data)
  \/ \E q \in inserts : InsertOk(q)
  \/ \E q \in inserts : SendCallback(q)
  \/ /\ nSends + nQueries < MaxClockEvents
     /\ \E c \in ClockConns, data \in ClockRequests : GetMessages(c, data)
  \/ \E q \in queries : QueryOk(q)
  \/ \E q \in queries : QueryCallback(q)

SpecClock == InitClock /\ [][NextClock]_vars

\* SpecRename: users register, send messages and friend requests and
\* rename themselves. Clients use a username until its rename has finished
\* (the request is answered and the updates it started have run).
\* HTTP requests and sendMessage events a run of SpecRename receives
MaxRenameEvents == 3

RenameConns == {"c1"}

\* the registrations of the runs of SpecRename
RenameRegistrations == {<<"alice", "pw">>, <<"carol", "pw">>, <<"alice", "">>}

\* the profile updates of the runs of SpecRename: a rename, and a new
\* avatar under the same username
RenameProfiles ==
  {<<"alice", "carol", Undefined>>, <<"alice", Undefined, "a.png">>}

\* the payloads clients send in the runs of SpecRename
RenameSendInputs ==
  { Data("hi", "alice", "bob", Undefined, Undefined),
    Data("yo", "bob", "alice", Undefined, Undefined) }

\* the friend requests of the runs of SpecRename
RenameFriendRequests == {<<"alice", "bob">>}

\* a rename has finished
RenameFinished ==
  /\ renamed # {}
  /\ \A s \in stmts : s.kind \notin {"profile", "cascade"}

NextRename ==
  \/ \E c \in RenameConns : Connect(c)
  \/ /\ nSends + nCalls < MaxRenameEvents
     /\ \E p \in RenameRegistrations : PostRegister(p[1], p[2])
  \/ \E s \in stmts : ExecRegister(s)
  \/ \E s \in stmts : RegisterCallback(s)
  \/ /\ nSends + nCalls < MaxRenameEvents
     /\ ~RenameFinished
     /\ \E c \in RenameConns, data \in RenameSendInputs : SendMessage(c, data)
  \/ \E q \in inserts : InsertOk(q)
  \/ \E q \in inserts : SendCallback(q)
  \/ /\ nSends + nCalls < MaxRenameEvents
     /\ ~RenameFinished
     /\ \E p \in RenameFriendRequests : PostFriends(p[1], p[2])
  \/ \E s \in stmts : ExecRequest(s)
  \/ \E s \in stmts : RequestCallback(s)
  \/ /\ nSends + nCalls < MaxRenameEvents
     /\ \E p \in RenameProfiles : PutUserProfile(p[1], p[2], p[3])
  \/ \E s \in stmts : ExecProfile(s)
  \/ \E s \in stmts : ProfileCallback(s)
  \/ \E s \in stmts : ExecCascade(s)

SpecRename == Init /\ [][NextRename]_vars

\* SpecFriends: alice and bob send each other friend requests and answer
\* the requests they have. A client answers a request of friend to user
\* only while that request is stored as pending.
\* HTTP requests a run of SpecFriends receives
MaxFriendCalls == 3

\* the users of the runs of SpecFriends
FriendUsers == {"alice", "bob"}

\* the answers to a friend request
FriendActions == {"accept", "reject"}

\* the request of friend to user is stored and waits for an answer
Pending(user, friend) == Edge(friend, user, "pending") \in friends

NextFriends ==
  \/ /\ nCalls < MaxFriendCalls
     /\ \E user \in FriendUsers, friend \in FriendUsers : PostFriends(user, friend)
  \/ \E s \in stmts : ExecRequest(s)
  \/ \E s \in stmts : RequestCallback(s)
  \/ /\ nCalls < MaxFriendCalls
     /\ \E user \in FriendUsers, friend \in FriendUsers, action \in FriendActions :
          /\ Pending(user, friend)
          /\ PutFriendsRespond(user, friend, action)
  \/ \E s \in stmts : ExecAccept(s)
  \/ \E s \in stmts : AcceptCallback(s)
  \/ \E s \in stmts : ExecReverse(s)
  \/ \E s \in stmts : ExecReject(s)
  \/ \E s \in stmts : RejectCallback(s)

SpecFriends == Init /\ [][NextFriends]_vars

(* ------------------------------ claims -------------------------------- *)

\* the step is the insert callback of q, taken with a successful insert
Dispatched(q) == q \in inserts /\ q.stage = "ok" /\ q \notin inserts'

\* the step is the insert callback of q, taken with a failed insert
Aborted(q) == q \in inserts /\ q.stage = "err" /\ q \notin inserts'

\* the sockets the step emitted something to
Receivers == {c \in Conns : inbox'[c] # inbox[c]}

\* the receiveMessage event the callback of q emits
EventOf(q) ==
  [event |-> "receiveMessage", req |-> q.req,
   msg |-> NewMessage(q.lastID, q.l, q.timestamp)]

\* the receiveMessage events of a socket's inbox
Received(c) ==
  {inbox[c][i] : i \in {j \in 1..Len(inbox[c]) : inbox[c][j].event = "receiveMessage"}}

\* the history events of a socket's inbox
Histories(c) ==
  {inbox[c][i] : i \in {j \in 1..Len(inbox[c]) : inbox[c][j].event = "history"}}

\* the usernames whose room a socket is in
RoomsOf(c) == {u \in Users : c \in rooms[u]}

\* C1 (as claimed): a message with a receiver is received by exactly the
\* live connections whose associated username (socket.username, the one
\* username of a connection) is its sender or its receiver, whatever joins
\* came before.
C1_OnlySenderOrReceiver ==
  [][\A q \in inserts :
       (Dispatched(q) /\ ~Falsy(q.l.receiver_username)) =>
         Receivers = {c \in live : username[c] \in {q.l.sender_username,
                                                    q.l.receiver_username}}]_vars

\* C1 (what the code does): a message with a receiver is received by
\* exactly the members of the room of its receiver and of the room of its
\* sender, a socket being a member of every room it ever joined.
C1_RoomUnion ==
  [][\A q \in inserts :
       (Dispatched(q) /\ ~Falsy(q.l.receiver_username)) =>
         Receivers = {c \in live : RoomsOf(c) \cap {q.l.sender_username,
                                                    q.l.receiver_username} # {}}]_vars

\* C2: a message without a receiver is received by every connection live
\* when its insert callback runs, joined or not, the sender's included.
C2_BroadcastToAllLive ==
  [][\A q \in inserts :
       (Dispatched(q) /\ Falsy(q.l.receiver_username)) =>
         /\ Receivers = live
         /\ \A c \in live : inbox'[c] = Append(inbox[c], EventOf(q))]_vars

\* C2 witness: the only connection there ever was, which never joined, has
\* received the broadcast it sent.
C2_Witness ==
  /\ live = {"c1"}
  /\ closed = {}
  /\ username["c1"] = Undefined
  /\ RoomsOf("c1") = {}
  /\ \E ev \in Received("c1") : Falsy(ev.msg.receiver_username)

\* C3: every message delivered to a connection has its row in the table,
\* stored by the send that delivered it; the delivery step stores nothing,
\* so the row was there before the first delivery.
C3_PersistedBeforeDelivered ==
  \A c \in Conns : \A ev \in Received(c) :
    /\ \E m \in messages : m.id = ev.msg.id
    /\ \E i \in 1..Len(origin) : origin[i].req = ev.req /\ origin[i].id = ev.msg.id

\* C3 witness: a delivered message, while another connection has left
C3_Witness ==
  /\ closed # {}
  /\ \E c \in live : Received(c) # {} /\ RoomsOf(c) # {}

\* C5: the insert callback gives each socket of the target set one more
\* event, the message, and no socket holds the message twice.
C5_ExactlyOnce ==
  [][\A q \in inserts :
       Dispatched(q) =>
         \A c \in Conns :
           /\ (c \in live /\ (Falsy(q.l.receiver_username)
                                \/ RoomsOf(c) \cap {q.l.sender_username,
                                                    q.l.receiver_username} # {}))
                => inbox'[c] = Append(inbox[c], EventOf(q))
           /\ Cardinality({i \in 1..Len(inbox'[c]) : inbox'[c][i] = EventOf(q)}) <= 1]_vars

\* C5 witness: a socket joined as bob holds, once, a message that bob
\* sent to bob
C5_Witness ==
  \E c \in live : \E ev \in Received(c) :
    /\ ev.msg.sender_username = "bob"
    /\ ev.msg.receiver_username = "bob"
    /\ username[c] = "bob"
    /\ Cardinality({i \in 1..Len(inbox[c]) : inbox[c][i] = ev}) = 1

\* C8: a disconnected socket is in no room, nothing is emitted to it any
\* more, and every room holds live sockets only (a username whose last
\* connection left has an empty room).
C8_NothingAfterDisconnect ==
  [][/\ \A c \in closed' : RoomsOf(c)' = {}
     /\ \A c \in closed : inbox'[c] = inbox[c]
     /\ \A u \in Users : rooms'[u] \subseteq live']_vars

\* C8 witness: the only connection there ever was sent a message, left
\* while the insert was in flight, and the message was dispatched (stored,
\* callback done, no error) without reaching it
C8_Witness ==
  /\ closed = {"c1"}
  /\ live = {}
  /\ nSends = 1
  /\ inserts = {}
  /\ errlog = {}
  /\ messages # {}
  /\ inbox["c1"] = <<>>

\* C9 (as claimed): a live connection is in the room of at most one
\* username, and of exactly one once it has joined.
C9_OneUsernamePerConnection ==
  \A c \in live :
    /\ Cardinality(RoomsOf(c)) <= 1
    /\ (username[c] # Undefined) => RoomsOf(c) = {username[c]}

\* C10 (as claimed): no event kills the server, and the callback of a
\* failed insert changes no room and no connection.
C10_NoOperationIsFatal ==
  [][/\ running'
     /\ \A q \in inserts : Aborted(q) => (rooms' = rooms /\ live' = live)]_vars

\* the history loads the database has answered: those whose callback is
\* still to run and those whose history event was emitted
Loads ==
  {q \in queries : q.stage = "ok"}
    \cup UNION {{ev.q : ev \in Histories(c)} : c \in Conns}

\* the sends whose insert failed
FailedReqs == errlog \cup {q.req : q \in {x \in inserts : x.stage = "err"}}

\* the ids of a sequence of rows, in its order
IdsOf(rows) == [i \in 1..Len(rows) |-> rows[i].id]

\* the send a row comes from
OriginOf(id) == origin[CHOOSE i \in 1..Len(origin) : origin[i].id = id]

\* a payload is a message between a and b, in either direction
Between(l, a, b) ==
  \/ l.sender_username = a /\ l.receiver_username = b
  \/ l.sender_username = b /\ l.receiver_username = a

\* the ids of the first n stored rows whose send was between a and b, in
\* the order they were stored
StoredBetween(n, a, b) ==
  LET Test(o) == Between(o.l, a, b)
  IN  IdsOf(SelectSeq(SubSeq(origin, 1, n), Test))

\* C4, the state after a failed insert: no receiveMessage event of that
\* send is in any inbox, no row comes from it, and every row a history load
\* returned comes from a send whose insert succeeded.
C4_NothingOfFailedSend ==
  /\ \A r \in FailedReqs :
       /\ \A c \in Conns : \A ev \in Received(c) : ev.req # r
       /\ \A i \in 1..Len(origin) : origin[i].req # r
  /\ Cardinality(messages) = Len(origin)
  /\ \A q \in Loads : \A i \in 1..Len(q.rows) :
       /\ \E j \in 1..Len(origin) : origin[j].id = q.rows[i].id
       /\ OriginOf(q.rows[i].id).req \notin FailedReqs

\* C4: the callback of a failed insert emits nothing to any connection
\* (the sender's included) and stores nothing, it only logs the error; and
\* nothing of the failed send is delivered or returned by a history load
\* in any later state.
C4_FailedInsertIsSilent ==
  [][/\ \A q \in inserts :
          Aborted(q) => /\ inbox' = inbox
                        /\ messages' = messages
                        /\ errlog' = errlog \cup {q.req}
     /\ C4_NothingOfFailedSend']_vars

\* C4 witness: the connection holds the answer of a global history load
\* that ran after a failed insert was logged, and no receiveMessage event
C4_Witness ==
  /\ errlog # {}
  /\ Received("c1") = {}
  /\ \E ev \in Histories("c1") : ev.q.type = "global" /\ ev.q.logged # {}

\* C6: a direct history load for (a, b) returns the rows of all the sends
\* between a and b stored so far, in either direction, in the order they
\* were stored.
C6_DirectHistoryInInsertionOrder ==
  \A q \in Loads :
    (q.type # "global" /\ q.me \in Users /\ q.mate \in Users) =>
      IdsOf(q.rows) = StoredBetween(q.stored, q.me, q.mate)

\* C6 witness: the history of (alice, bob) holds a message of bob to alice
\* followed by one of alice to bob
C6_Witness ==
  \E ev \in Histories("c1") :
    /\ ev.q.me = "alice" /\ ev.q.mate = "bob"
    /\ Len(ev.rows) = 2
    /\ ev.rows[1].sender_username = "bob" /\ ev.rows[1].receiver_username = "alice"
    /\ ev.rows[2].sender_username = "alice" /\ ev.rows[2].receiver_username = "bob"

\* C7: a global history load returns only rows of sends without a
\* receiver, and a direct history load only rows of sends with a receiver.
C7_GlobalDirectPartition ==
  \A q \in Loads : \A i \in 1..Len(q.rows) :
    Falsy(OriginOf(q.rows[i].id).l.receiver_username) <=> (q.type = "global")

\* C7 witness: with a direct and a global message stored, a global load
\* returned one row
C7_Witness ==
  \E ev \in Histories("c1") :
    /\ ev.q.type = "global" /\ ev.q.stored = 2 /\ Len(ev.rows) = 1
    /\ \E m \in messages : m.receiver_username # Null

\* the step is the query callback of q
Answered(q) == q \in queries /\ q.stage \in {"ok", "err"} /\ q \notin queries'

\* the history event the callback of q emits
HistoryOf(q) == [event |-> "history", q |-> q, rows |-> q.rows]

\* C11, the state: every history event a socket holds answers a
\* getMessages event of that socket, and it holds it once.
C11_OwnHistoryOnly ==
  \A c \in Conns : \A ev \in Histories(c) :
    /\ ev.q.conn = c
    /\ Cardinality({i \in 1..Len(inbox[c]) : inbox[c][i] = ev}) = 1

\* C11: the callback of a successful query emits one history event, to the
\* socket that asked (which receives it if it is still connected) and to
\* no other socket; the callback of a failed query emits nothing.
C11_HistoryToRequesterOnly ==
  [][/\ \A q \in queries :
          Answered(q) =>
            /\ Receivers \subseteq {q.conn}
            /\ (q.stage = "ok" /\ q.conn \in live)
                 => inbox'[q.conn] = Append(inbox[q.conn], HistoryOf(q))
            /\ (q.stage = "err") => Receivers = {}
     /\ C11_OwnHistoryOnly']_vars

\* C11 witness: of two live connections, the second holds the answer to
\* its history request, with a row in it, and the first holds none
C11_Witness ==
  /\ live = {"c1", "c2"}
  /\ Histories("c1") = {}
  /\ \E ev \in Histories("c2") : Len(ev.rows) = 1

\* the step is the execution of the INSERT of q by the database
Executed(q) == q \in inserts /\ q.stage = "sent" /\ q \notin inserts'

\* the insert record of q after the database has answered
AnswerOf(q) == CHOOSE r \in inserts' : r.req = q.req

\* C12, the state: the table holds one row per insert that succeeded, each
\* under its own id.
C12_OneRowPerStoredSend ==
  /\ Cardinality(messages) = Len(origin)
  /\ Cardinality({m.id : m \in messages}) = Cardinality(messages)

\* C12: the insert of a send, when it succeeds, adds one row to the table,
\* and none when it fails; no step of a send (handler, insert, callback)
\* removes or changes a row that is stored, or changes the membership of a
\* room; and nothing but a successful insert changes the table.
C12_OneRowAppended ==
  [][/\ messages \subseteq messages'
     /\ \A q \in inserts :
          Executed(q) =>
            /\ (AnswerOf(q).stage = "ok") =>
                 /\ Cardinality(messages' \ messages) = 1
                 /\ \A m \in messages' \ messages : m.id = AnswerOf(q).lastID
            /\ (AnswerOf(q).stage = "err") => messages' = messages
     /\ (messages' # messages) =>
          \E q \in inserts : Executed(q) /\ AnswerOf(q).stage = "ok"
     /\ (inserts' # inserts \/ nSends' # nSends) => rooms' = rooms
     /\ C12_OneRowPerStoredSend']_vars

\* C12 witness: of two sends, to a room with a member, one was stored and
\* dispatched and the insert of the other failed; the table holds one row
C12_Witness ==
  /\ nSends = 2
  /\ inserts = {}
  /\ Cardinality(errlog) = 1
  /\ Cardinality(messages) = 1
  /\ rooms["alice"] # {}

\* no connection is in the room of any username
NobodyJoined == \A u \in Users : rooms[u] = {}

\* the ids of the first n stored rows whose send had no receiver, in the
\* order they were stored
StoredGlobal(n) ==
  LET Test(o) == Falsy(o.l.receiver_username)
  IN  IdsOf(SelectSeq(SubSeq(origin, 1, n), Test))

\* C13, the history part: a global history load returns the rows of all
\* the sends without a receiver stored before it ran.
C13_GlobalLoadsComplete ==
  \A q \in Loads : (q.type = "global") => IdsOf(q.rows) = StoredGlobal(q.stored)

\* C13 (as claimed): a message without a receiver dispatched while no
\* connection has joined any username fires receiveMessage on no
\* connection, and every later global history load returns it. (In the runs
\* of SpecChat no connection leaves, so that nobody is joined at the
\* dispatch means that nobody had joined when the message was sent.)
C13_SilentWhenNobodyJoined ==
  [][/\ \A q \in inserts :
          (Dispatched(q) /\ Falsy(q.l.receiver_username) /\ NobodyJoined) =>
            Receivers = {}
     /\ C13_GlobalLoadsComplete']_vars

\* C13 (amended): a message without a receiver dispatched while no
\* connection has joined any username fires receiveMessage once on every
\* connection live at the dispatch, none of which has joined, and on no
\* other; and every global history load that runs once the message is
\* stored returns it.
C13_BroadcastThenHistory ==
  [][/\ \A q \in inserts :
          (Dispatched(q) /\ Falsy(q.l.receiver_username) /\ NobodyJoined) =>
            /\ Receivers = live
            /\ \A c \in live : /\ RoomsOf(c) = {}
                               /\ inbox'[c] = Append(inbox[c], EventOf(q))
     /\ C13_GlobalLoadsComplete']_vars

\* C13 witness: the first connection, which never joined, holds a message
\* without a receiver; the second, which connected after the dispatch and
\* joined as alice, holds a global history with that message in it
C13_Witness ==
  /\ live = {"c1", "c2"}
  /\ RoomsOf("c1") = {}
  /\ RoomsOf("c2") = {"alice"}
  /\ Received("c2") = {}
  /\ \E ev \in Received("c1") :
       /\ Falsy(ev.msg.receiver_username)
       /\ \E h \in Histories("c2") :
            /\ h.q.type = "global"
            /\ \E i \in 1..Len(h.rows) : h.rows[i].id = ev.msg.id

\* C14 (as claimed): no stored row and no delivered record has kind 'file'
\* without an attachment reference.
C14_FileHasAttachment ==
  /\ \A m \in messages : (m.type = "file") => (m.file_url # Null)
  /\ \A c \in Conns : \A ev \in Received(c) :
       (ev.msg.type = "file") => (ev.msg.file_url \notin {Null, Undefined})

\* a delivered record and a row agree on every field (a field missing from
\* the record counts as null)
SameRecord(msg, row) ==
  /\ msg.id = row.id
  /\ ToSql(msg.text) = row.text
  /\ ToSql(msg.sender_username) = row.sender_username
  /\ ToSql(msg.receiver_username) = row.receiver_username
  /\ msg.timestamp = row.timestamp
  /\ ToSql(msg.type) = row.type
  /\ ToSql(msg.file_url) = row.file_url

\* C17 (as claimed): a record delivered live equals, field by field, the
\* row a history load returns under its id, and the row stored under it.
C17_LiveEqualsPersisted ==
  \A c \in Conns : \A ev \in Received(c) :
    /\ \A m \in messages : (m.id = ev.msg.id) => SameRecord(ev.msg, m)
    /\ \A q \in Loads : \A i \in 1..Len(q.rows) :
         (q.rows[i].id = ev.msg.id) => SameRecord(ev.msg, q.rows[i])

\* the place of the row with this id in a sequence of rows (0: not there)
PlaceOf(rows, id) ==
  IF \E i \in 1..Len(rows) : rows[i].id = id
    THEN CHOOSE i \in 1..Len(rows) : rows[i].id = id
    ELSE 0

\* the places of a socket's inbox that hold two receiveMessage events of
\* one sender/receiver pair (direct messages), the first emitted before the second (the
\* callback of the first ran before the callback of the second)
SamePairInOrder(c) ==
  {p \in (1..Len(inbox[c])) \X (1..Len(inbox[c])) :
     /\ p[1] < p[2]
     /\ inbox[c][p[1]].event = "receiveMessage"
     /\ inbox[c][p[2]].event = "receiveMessage"
     /\ ~Falsy(inbox[c][p[1]].msg.receiver_username)
     /\ inbox[c][p[1]].msg.sender_username = inbox[c][p[2]].msg.sender_username
     /\ inbox[c][p[1]].msg.receiver_username = inbox[c][p[2]].msg.receiver_username}

\* C15 (as claimed): of two messages of one pair, the one whose insert
\* callback ran first has the smaller id, and comes first in every direct
\* history that holds both: a connection receives the messages of a pair
\* in the order history returns them.
C15_LiveOrderIsIdOrder ==
  \A c \in Conns : \A p \in SamePairInOrder(c) :
    /\ inbox[c][p[1]].msg.id < inbox[c][p[2]].msg.id
    /\ \A q \in Loads :
         (q.type = "direct"
            /\ PlaceOf(q.rows, inbox[c][p[1]].msg.id) > 0
            /\ PlaceOf(q.rows, inbox[c][p[2]].msg.id) > 0)
           => PlaceOf(q.rows, inbox[c][p[1]].msg.id) < PlaceOf(q.rows, inbox[c][p[2]].msg.id)

\* hour:minute a is not later in the day than hour:minute b
NotAfter(a, b) == a[1] < b[1] \/ (a[1] = b[1] /\ a[2] <= b[2])

\* C16 (as claimed): in every history result, global or direct, the
\* timestamps of the rows are non-decreasing in the returned order.
C16_TimestampsNonDecreasing ==
  \A q \in Loads : \A i \in 1..Len(q.rows) : \A j \in 1..Len(q.rows) :
    (i < j) => NotAfter(q.rows[i].timestamp, q.rows[j].timestamp)

\* the sends whose insert callback has not run yet
InFlight == {q.req : q \in inserts}

\* C18, no message twice: a message of the pair that a connection receives
\* live after the answer to its direct history request is not in that
\* answer.
C18_NotTwice ==
  \A c \in Conns : \A i \in 1..Len(inbox[c]) : \A j \in 1..Len(inbox[c]) :
    (/\ i < j
     /\ inbox[c][i].event = "history"
     /\ inbox[c][i].q.type = "direct"
     /\ inbox[c][j].event = "receiveMessage"
     /\ Between(inbox[c][j].msg, inbox[c][i].q.me, inbox[c][i].q.mate))
      => PlaceOf(inbox[c][i].rows, inbox[c][j].msg.id) = 0

\* C18, no message missed: a stored message of the pair whose callback has
\* run is in the answer or was received live by the connection.
C18_NotMissed ==
  \A c \in Conns : \A h \in Histories(c) :
    (h.q.type = "direct") =>
      \A k \in 1..Len(origin) :
        (Between(origin[k].l, h.q.me, h.q.mate) /\ origin[k].req \notin InFlight)
          => \/ PlaceOf(h.rows, origin[k].id) > 0
             \/ \E ev \in Received(c) : ev.msg.id = origin[k].id

\* C18 (as claimed): a connection that joined as u and then asked for the
\* direct history with v (the only way a direct history is asked for in
\* the runs of SpecChat, where no connection leaves) gets every message
\* between u and v in the answer or by a receiveMessage event, and none
\* in both.
C18_HistoryOrLiveNotBoth == C18_NotTwice /\ C18_NotMissed

\* the rows of the messages table the direct history of (me, mate) returns
DirectRows(me, mate) == {m \in messages : DirectMatch(m, me, mate)}

\* everything that was started has finished: no statement of a route and
\* no insert of a send is in flight
Quiet == stmts = {} /\ inserts = {}

\* C19 (as claimed): once a rename from u to v, which gave the user row the
\* name v, and every update and send started before its end have
\* finished, no message row and no friendship row references u, and the
\* direct history of (v, w) holds every message that was sent between u
\* and w.
C19_RenameCascadesCompletely ==
  Quiet =>
    \A p \in renamed :
      (\E r \in users : r.username = p[2]) =>
        /\ \A m \in messages :
             m.sender_username # p[1] /\ m.receiver_username # p[1]
        /\ \A f \in friends :
             f.user_username # p[1] /\ f.friend_username # p[1]
        /\ \A k \in 1..Len(origin) : \A w \in Users :
             Between(origin[k].l, p[1], w) =>
               \E m \in DirectRows(p[2], w) : m.id = origin[k].id

\* C20 (as claimed): once every statement that was started has run, an
\* accepted edge (a, b) has its reverse (b, a) accepted, a request was
\* stored between its two users, and no edge is from a user to itself.
C20_AcceptedIsSymmetric ==
  (stmts = {}) =>
    \A f \in friends :
      /\ f.user_username # f.friend_username
      /\ (f.status = "accepted") =>
           /\ Edge(f.friend_username, f.user_username, "accepted") \in friends
           /\ \/ <<f.user_username, f.friend_username>> \in asked
              \/ <<f.friend_username, f.user_username>> \in asked

====
